---------------------------- MODULE Spec2Model ----------------------------
(***************************************************************************)
(* Model of the webgo routing layer (src/web.go).                          *)
(*                                                                         *)
(* Strings that the code inspects character by character (route patterns,  *)
(* request paths, methods) are sequences of one-character strings.         *)
(* Opaque strings (bodies, header values) are TLA+ strings.  A Go pointer  *)
(* that may be nil is a sequence of length 0 (nil) or 1.                   *)
(***************************************************************************)
EXTENDS Integers, Sequences, FiniteSets, TLC

(***************************************************************************)
(* Bounds of the model.                                                    *)
(***************************************************************************)
\* the longest processor list the setup phase builds
MaxProcessors == 2
\* how many '/' characters the trailing-separator checks append to a path
MaxTrail == 2

(***************************************************************************)
(* strings.TrimRight, strings.IndexByte                                    *)
(***************************************************************************)
RECURSIVE TrimRight(_, _)
\* strings.TrimSuffix instead: one trailing separator only is removed
TrimSuffixOnce(s, ch) ==
    IF Len(s) > 0 /\ s[Len(s)] = ch THEN SubSeq(s, 1, Len(s) - 1) ELSE s

\* strings.TrimRight(s, ch): s without all its trailing ch characters
TrimRight(s, ch) ==
    IF Len(s) > 0 /\ s[Len(s)] = ch
    THEN TrimRight(SubSeq(s, 1, Len(s) - 1), ch)
    ELSE s

\* strings.IndexByte(s, ch) < 0
HasNoByte(s, ch) == \A i \in 1..Len(s) : s[i] # ch

(***************************************************************************)
(* regexp.Compile for the syntax the model's patterns use: literals, '.',  *)
(* '^', '$', groups '(' ')' and the greedy repetitions '*' and '+'.  The   *)
(* result is a program for the backtracking matcher, as in package regexp: *)
(* instructions with targets relative to their own position.               *)
(***************************************************************************)
Inst(op, c, x, y) == [op |-> op, c |-> c, x |-> x, y |-> y]

\* e* : try e first (greedy), then the continuation
StarFrag(f) == <<Inst("alt", "", 1, Len(f) + 2)>> \o f \o <<Inst("jmp", "", 0 - (Len(f) + 1), 0)>>
\* e+ : e, then again e first (greedy), then the continuation
PlusFrag(f) == f \o <<Inst("alt", "", 0 - Len(f), 1)>>
\* (e) as capture group n: slots 2n and 2n+1 hold its start and end
CapFrag(n, f) == <<Inst("cap", "", 2 * n, 0)>> \o f \o <<Inst("cap", "", 2 * n + 1, 0)>>

AtomFrag(ch) ==
    CASE ch = "." -> <<Inst("any", "", 0, 0)>>
      [] ch = "^" -> <<Inst("bol", "", 0, 0)>>
      [] ch = "$" -> <<Inst("eol", "", 0, 0)>>
      [] OTHER    -> <<Inst("char", ch, 0, 0)>>

ParseError == [err |-> TRUE, frag |-> <<>>, i |-> 0, ncap |-> 0]

RECURSIVE ParseSeq(_, _, _, _, _, _, _)
\* Parses toks from position i up to the end (depth 0) or the closing ')'.
\* acc: the program of the items before the last one; last: the last item
\* (nil or one program), which a following '*' or '+' applies to; rep: the
\* last item already carries a repetition; ncap: groups opened so far.
ParseSeq(toks, i, depth, ncap, acc, last, rep) ==
    LET flush == IF last = <<>> THEN acc ELSE acc \o last[1] IN
    IF i > Len(toks)
    THEN IF depth > 0
         THEN ParseError                      \* missing closing )
         ELSE [err |-> FALSE, frag |-> flush, i |-> i, ncap |-> ncap]
    ELSE LET ch == toks[i] IN
         CASE ch = ")" ->
                IF depth = 0
                THEN ParseError               \* unexpected )
                ELSE [err |-> FALSE, frag |-> flush, i |-> i, ncap |-> ncap]
           [] ch = "(" ->
                LET inner == ParseSeq(toks, i + 1, depth + 1, ncap + 1, <<>>, <<>>, FALSE) IN
                IF inner.err
                THEN ParseError
                ELSE ParseSeq(toks, inner.i + 1, depth, inner.ncap, flush,
                              <<CapFrag(ncap + 1, inner.frag)>>, FALSE)
           [] ch \in {"*", "+"} ->
                IF last = <<>> \/ rep
                THEN ParseError               \* missing argument / nested repetition
                ELSE ParseSeq(toks, i + 1, depth, ncap, acc,
                              <<IF ch = "*" THEN StarFrag(last[1]) ELSE PlusFrag(last[1])>>,
                              TRUE)
           [] OTHER ->
                ParseSeq(toks, i + 1, depth, ncap, flush, <<AtomFrag(ch)>>, FALSE)

\* regexp.Compile(pattern): (re, err); re is nil when err is not
Compile(pattern) ==
    LET p == ParseSeq(pattern, 1, 0, 0, <<>>, <<>>, FALSE) IN
    IF p.err
    THEN [re |-> <<>>, err |-> TRUE]
    ELSE [re |-> <<[prog |-> p.frag \o <<Inst("match", "", 0, 0)>>, ncap |-> p.ncap]>>,
          err |-> FALSE]

(***************************************************************************)
(* The backtracking matcher of package regexp (leftmost-first semantics).  *)
(* A job is a program counter, an input offset (0-based) and the capture   *)
(* slots; the job on top of the stack has the highest priority.            *)
(***************************************************************************)
NoMatch == [matched |-> FALSE, caps |-> <<>>]

RECURSIVE Backtrack(_, _, _, _)
Backtrack(prog, s, stack, visited) ==
    IF stack = <<>> THEN NoMatch
    ELSE
    LET job  == stack[Len(stack)]
        rest == SubSeq(stack, 1, Len(stack) - 1)
        pc   == job.pc
        pos  == job.pos
        in   == prog[pc]
        seen == visited \cup {<<pc, pos>>}
    IN  IF <<pc, pos>> \in visited THEN Backtrack(prog, s, rest, visited)
        ELSE CASE in.op = "match" -> [matched |-> TRUE, caps |-> [job.caps EXCEPT ![2] = pos]]
               [] in.op = "char" ->
                    IF pos < Len(s) /\ s[pos + 1] = in.c
                    THEN Backtrack(prog, s, Append(rest, [job EXCEPT !.pc = pc + 1, !.pos = pos + 1]), seen)
                    ELSE Backtrack(prog, s, rest, seen)
               [] in.op = "any" ->
                    IF pos < Len(s)
                    THEN Backtrack(prog, s, Append(rest, [job EXCEPT !.pc = pc + 1, !.pos = pos + 1]), seen)
                    ELSE Backtrack(prog, s, rest, seen)
               [] in.op = "bol" ->
                    IF pos = 0
                    THEN Backtrack(prog, s, Append(rest, [job EXCEPT !.pc = pc + 1]), seen)
                    ELSE Backtrack(prog, s, rest, seen)
               [] in.op = "eol" ->
                    IF pos = Len(s)
                    THEN Backtrack(prog, s, Append(rest, [job EXCEPT !.pc = pc + 1]), seen)
                    ELSE Backtrack(prog, s, rest, seen)
               [] in.op = "cap" ->
                    Backtrack(prog, s,
                              Append(rest, [job EXCEPT !.pc = pc + 1, !.caps[in.x + 1] = pos]),
                              seen)
               [] in.op = "jmp" ->
                    Backtrack(prog, s, Append(rest, [job EXCEPT !.pc = pc + in.x]), seen)
               [] in.op = "alt" ->
                    Backtrack(prog, s,
                              rest \o <<[job EXCEPT !.pc = pc + in.y], [job EXCEPT !.pc = pc + in.x]>>,
                              seen)

RECURSIVE SearchFrom(_, _, _)
\* the unanchored search: the leftmost start offset that leads to a match
SearchFrom(re, s, start) ==
    IF start > Len(s) THEN NoMatch
    ELSE LET caps0 == [k \in 1..(2 * re.ncap + 2) |-> IF k = 1 THEN start ELSE 0 - 1]
             m == Backtrack(re.prog, s, <<[pc |-> 1, pos |-> start, caps |-> caps0]>>, {})
         IN  IF m.matched THEN m ELSE SearchFrom(re, s, start + 1)

\* (*Regexp).MatchString
MatchString(re, s) == SearchFrom(re, s, 0).matched

\* the text between two capture slots; "" for a group that took no part
SliceOf(s, from, to) == IF from < 0 \/ to < 0 THEN <<>> ELSE SubSeq(s, from + 1, to)

\* (*Regexp).FindStringSubmatch on a string that matches: the text of the
\* whole match followed by the text of each group, in the order of the
\* groups' opening parentheses
FindStringSubmatch(re, s) ==
    LET m == SearchFrom(re, s, 0) IN
    [g \in 1..(re.ncap + 1) |-> SliceOf(s, m.caps[2 * g - 1], m.caps[2 * g])]

(***************************************************************************)
(* Values of the program.                                                  *)
(***************************************************************************)
Clients == {"c1", "c2"}

\* http.Header: a map from a name to its list of values
EmptyHeader == [n \in {} |-> <<>>]

\* the local variable `processor` of ServeHTTP: nil, the default processor
\* or the element idx of app.processors
NilRef == [kind |-> "nil", idx |-> 0]
DefaultRef == [kind |-> "default", idx |-> 0]
ListRef(i) == [kind |-> "list", idx |-> i]

\* Respond(status, body)
Respond(status, body) ==
    [Status |-> status, Headers |-> EmptyHeader, Body |-> body, BodyReader |-> <<>>]

\* Redirect(redirectUrl)
Redirect(redirectUrl) ==
    [Respond(302, "") EXCEPT !.Headers = [n \in {"Location"} |-> <<redirectUrl>>]]

\* ParseRequest: the error of ioutil.ReadAll is discarded, a Request is
\* returned whatever happened; Body holds what was read before the error
ParseRequest(r) ==
    <<[Method |-> r.Method, Path |-> r.Path, Body |-> r.Read, Arguments |-> <<>>]>>

\* ParseResponse: the status and the header map of the raw response, the
\* body read into memory, no stream
ParseResponse(resp) ==
    [Status |-> resp.StatusCode, Headers |-> resp.Header, Body |-> resp.Body,
     BodyReader |-> <<>>]

(***************************************************************************)
(* Route: the pattern it compiles and the matcher it builds.               *)
(***************************************************************************)
\* a method wildcard written as a capture group
MethodWildcardGroup == <<"(", ".", "*", ")", " ">>

\* the ".* " that Route puts before a pattern without a method token
MethodWildcard == <<".", "*", " ">>

\* the pattern Route hands to regexp.Compile
RoutePattern(pattern) ==
    LET trimmed == TrimRight(pattern, "/")
        full == IF HasNoByte(trimmed, " ") THEN MethodWildcard \o trimmed ELSE trimmed
    IN  <<"^">> \o full \o <<"$">>

\* The Processor that Route appends.  The error of regexp.Compile is
\* discarded: re is nil when the pattern does not compile.  `pattern` keeps
\* the argument of Route, for the properties only.
RouteProcessor(pattern) ==
    [Match |-> [kind |-> "route", re |-> Compile(RoutePattern(pattern)).re],
     pattern |-> pattern]

\* a Processor built by the caller and given to AddProcessor or
\* SetDefaultProcessor; its Match accepts every string and captures nothing.
\* The Process field of a Processor is a function of the caller: the model
\* keeps no value for it, a processor is known by its place (DefaultRef,
\* ListRef) and what its handler returns is chosen when it is called.
CatchAll == [Match |-> [kind |-> "func", re |-> <<>>], pattern |-> <<>>]

\* FindStringSubmatch(path)[1:]
SubmatchArgs(m) == Tail(m)

\* p.Match(path): (ok, args), or the nil dereference of a route whose
\* pattern did not compile
MatchFunc(p, path) ==
    IF p.Match.kind = "func"
    THEN [panic |-> FALSE, ok |-> TRUE, args |-> <<>>]
    ELSE IF p.Match.re = <<>>
    THEN [panic |-> TRUE, ok |-> FALSE, args |-> <<>>]
    ELSE LET re == p.Match.re[1] IN
         IF MatchString(re, path)
         THEN [panic |-> FALSE, ok |-> TRUE, args |-> SubmatchArgs(FindStringSubmatch(re, path))]
         ELSE [panic |-> FALSE, ok |-> FALSE, args |-> <<>>]

(***************************************************************************)
(* ServeHTTP: its pure parts.                                              *)
(***************************************************************************)
\* path := req.Method + " " + strings.TrimRight(req.Path, "/")
NormalizedPath(rq) == rq.Method \o <<" ">> \o TrimRight(rq.Path, "/")

\* the default processor forgotten
InitialProcessorNil(def) == NilRef

\* processor := app.defaultProcessor
InitialProcessor(def) == IF def = <<>> THEN NilRef ELSE DefaultRef

\* the break forgotten: the loop goes on after a match
NextIndexNoBreak(ok, i, n) == i + 1

\* the loop over app.processors: after element i of n, the next element,
\* or past the end on the break
NextIndex(ok, i, n) == IF ok THEN n + 1 ELSE i + 1

\* the captured arguments kept in one place for all the calls
StoreArgumentsShared(reqs, c, args) ==
    [d \in DOMAIN reqs |-> [reqs[d] EXCEPT !.Arguments = args]]

\* req.Arguments = args, on the Request of the call
StoreArguments(reqs, c, args) == [reqs EXCEPT ![c].Arguments = args]

\* the http.ResponseWriter of a call: nothing written yet
NewWriter == [Status |-> 0, Header |-> EmptyHeader, Body |-> <<>>]

\* w.Write(data)
WriteBody(wr, data) ==
    IF data = "" THEN wr ELSE [wr EXCEPT !.Body = Append(wr.Body, data)]

\* the status alone written, without the message
HttpErrorNoBody(wr, msg, code) == [wr EXCEPT !.Status = code]

\* http.Error(w, msg, code): plain-text headers, the status, msg and a
\* newline as the body
HttpError(wr, msg, code) ==
    [Status |-> code,
     Header |-> [n \in DOMAIN wr.Header \cup {"Content-Type", "X-Content-Type-Options"} |->
                    CASE n = "Content-Type" -> <<"text/plain; charset=utf-8">>
                      [] n = "X-Content-Type-Options" -> <<"nosniff">>
                      [] OTHER -> wr.Header[n]],
     Body |-> wr.Body \o <<msg, "\n">>]

\* the last value of a repeated header emitted instead of the first
SetHeadersLast(wh, headers) ==
    [n \in DOMAIN wh \cup DOMAIN headers |->
        IF n \in DOMAIN headers THEN <<headers[n][Len(headers[n])]>> ELSE wh[n]]

\* for name, value := range resp.Headers { w.Header().Set(name, value[0]) }
SetHeaders(wh, headers) ==
    [n \in DOMAIN wh \cup DOMAIN headers |->
        IF n \in DOMAIN headers THEN <<headers[n][1]>> ELSE wh[n]]

\* the emission path: headers, status, then the stream or the body
Emit(wr, resp) ==
    WriteBody([wr EXCEPT !.Header = SetHeaders(wr.Header, resp.Headers),
                         !.Status = resp.Status],
              IF resp.BodyReader # <<>> THEN resp.BodyReader[1] ELSE resp.Body)

RECURSIVE ScanFrom(_, _, _, _)
\* the whole loop of ServeHTTP from element i on, for one request taken
\* alone: the processor selected and the arguments stored
ScanFrom(procs, def, path, i) ==
    IF i > Len(procs)
    THEN [panic |-> FALSE, ref |-> InitialProcessor(def), args |-> <<>>]
    ELSE LET m == MatchFunc(procs[i], path) IN
         IF m.panic THEN [panic |-> TRUE, ref |-> NilRef, args |-> <<>>]
         ELSE IF m.ok THEN [panic |-> FALSE, ref |-> ListRef(i), args |-> m.args]
         ELSE ScanFrom(procs, def, path, i + 1)

Select(procs, def, method, path) ==
    ScanFrom(procs, def, NormalizedPath([Method |-> method, Path |-> path]), 1)

(***************************************************************************)
(* Inputs.                                                                 *)
(***************************************************************************)
GET == <<"G", "E", "T">>
POST == <<"P", "O", "S", "T">>
Methods == {GET, POST}

PatASlash == <<"/", "a", "/">>
PatOne == <<"/", "(", "a", "+", ")">>
PatTwo == <<"/", "(", "a", "+", ")", "/", "(", ".", "*", ")">>
PatGetA == <<"G", "E", "T", " ", "/", "a">>
PatBroken == <<"/", "a", "(">>
Patterns == {PatASlash, PatOne, PatTwo, PatGetA, PatBroken}
ConcPatterns == {PatOne, PatGetA}

PathA == <<"/", "a">>
PathASlash == <<"/", "a", "/">>
PathAA == <<"/", "a", "a">>
PathAAB == <<"/", "a", "a", "/", "b">>
PathB == <<"/", "b">>
PathSpace == <<"/", "x", " ", "/", "a">>
Paths == {PathA, PathASlash, PathAAB, PathB, PathSpace}

RawReq(method, path, body, read, err) ==
    [Method |-> method, Path |-> path, Body |-> body, Read |-> read, ReadErr |-> err]

\* the requests the server hands to ServeHTTP; the last one is a request
\* whose body cannot be read to its end
RawRequests ==
    {RawReq(GET, p, "", "", FALSE) : p \in Paths}
        \cup {RawReq(POST, PathA, "ab", "a", TRUE)}
ConcRequests ==
    {RawReq(GET, PathAA, "", "", FALSE), RawReq(POST, PathA, "ab", "ab", FALSE),
     RawReq(GET, PathA, "", "", FALSE)}

RawResp(status, header, body) == [StatusCode |-> status, Header |-> header, Body |-> body]

\* raw responses of an outbound call, with header names in canonical form
\* and at least one value for each name, as the HTTP client delivers them
RawResponses ==
    {RawResp(204, EmptyHeader, ""),
     RawResp(200, [n \in {"Set-Cookie", "Etag"} |->
                     IF n = "Etag" THEN <<"v1">> ELSE <<"a=1", "b=2">>], "ok")}

\* What a handler (a ProcessFunc of the caller) returns: a response it
\* builds, or the translation of the raw response `up` of an outbound call.
HandlerResults ==
    {[up |-> <<>>, resp |-> Redirect("/a")]}
        \cup {[up |-> <<r>>, resp |-> ParseResponse(r)] : r \in RawResponses}
ConcHandlerResults == {[up |-> <<>>, resp |-> Respond(200, "hello")]}

NoRequest == [Method |-> <<>>, Path |-> <<>>, Body |-> "", Arguments |-> <<>>]
NoRaw == RawReq(<<>>, <<>>, "", "", FALSE)

(***************************************************************************)
(* State.                                                                  *)
(***************************************************************************)
VARIABLES
    processors,        \* app.processors
    defaultProcessor,  \* app.defaultProcessor: nil or one Processor
    running,           \* Run was called: the server is listening
    pc,                \* where each ServeHTTP call stands
    raw,               \* its *http.Request
    req,               \* its *Request
    processor,         \* its local variable processor
    idx,               \* the position of its loop over app.processors
    w,                 \* its http.ResponseWriter
    invoked,           \* the processors whose Process it has called
    upstream           \* the raw response its handler translated, if any

app == <<processors, defaultProcessor, running>>
calls == <<pc, raw, req, processor, idx, w, invoked, upstream>>
vars == <<processors, defaultProcessor, running, pc, raw, req, processor, idx, w,
          invoked, upstream>>

\* NewApplication
Init ==
    /\ processors = <<>>
    /\ defaultProcessor = <<>>
    /\ running = FALSE
    /\ pc = [c \in Clients |-> "idle"]
    /\ raw = [c \in Clients |-> NoRaw]
    /\ req = [c \in Clients |-> NoRequest]
    /\ processor = [c \in Clients |-> NilRef]
    /\ idx = [c \in Clients |-> 0]
    /\ w = [c \in Clients |-> NewWriter]
    /\ invoked = [c \in Clients |-> <<>>]
    /\ upstream = [c \in Clients |-> <<>>]

(***************************************************************************)
(* Setup.  Registration is the caller's setup code; Run blocks its caller  *)
(* in ListenAndServe, so the setup code is over once the server listens.   *)
(***************************************************************************)
AddProcessor(p) ==
    /\ ~running
    /\ Len(processors) < MaxProcessors
    /\ processors' = Append(processors, p)
    /\ UNCHANGED <<defaultProcessor, running, calls>>

Route(pattern) ==
    /\ ~running
    /\ Len(processors) < MaxProcessors
    /\ processors' = Append(processors, RouteProcessor(pattern))
    /\ UNCHANGED <<defaultProcessor, running, calls>>

SetDefaultProcessor(p) ==
    /\ ~running
    /\ defaultProcessor' = <<p>>
    /\ UNCHANGED <<processors, running, calls>>

Run ==
    /\ ~running
    /\ running' = TRUE
    /\ UNCHANGED <<processors, defaultProcessor, calls>>

(***************************************************************************)
(* ServeHTTP, one call per client, in the steps at which it reads the      *)
(* Application.                                                            *)
(***************************************************************************)
\* lines 130-138: the request is translated; processor and the loop start
ServeBegin(c, r) ==
    /\ running
    /\ pc[c] = "idle"
    /\ raw' = [raw EXCEPT ![c] = r]
    /\ LET parsed == ParseRequest(r) IN
       IF parsed = <<>>
       THEN /\ w' = [w EXCEPT ![c] = HttpError(w[c], "Bad Request", 400)]
            /\ pc' = [pc EXCEPT ![c] = "done"]
            /\ UNCHANGED <<req, processor, idx>>
       ELSE /\ req' = [req EXCEPT ![c] = parsed[1]]
            /\ processor' = [processor EXCEPT ![c] = InitialProcessor(defaultProcessor)]
            /\ idx' = [idx EXCEPT ![c] = 1]
            /\ pc' = [pc EXCEPT ![c] = "scan"]
            /\ UNCHANGED w
    /\ UNCHANGED <<app, invoked, upstream>>

\* lines 139-145: one turn of the loop.  The nil dereference in the Match of
\* a route without regexp ends the call: net/http recovers the panic and
\* closes the connection, nothing is written.
ServeScan(c) ==
    /\ pc[c] = "scan"
    /\ idx[c] <= Len(processors)
    /\ LET m == MatchFunc(processors[idx[c]], NormalizedPath(req[c])) IN
       IF m.panic
       THEN /\ pc' = [pc EXCEPT ![c] = "panic"]
            /\ UNCHANGED <<req, processor, idx>>
       ELSE /\ idx' = [idx EXCEPT ![c] = NextIndex(m.ok, idx[c], Len(processors))]
            /\ IF m.ok
               THEN /\ processor' = [processor EXCEPT ![c] = ListRef(idx[c])]
                    /\ req' = StoreArguments(req, c, m.args)
               ELSE UNCHANGED <<req, processor>>
            /\ UNCHANGED pc
    /\ UNCHANGED <<app, raw, w, invoked, upstream>>

\* lines 147-162: not found, or the handler and the emission of its response
ServeRespond(c, results) ==
    /\ pc[c] = "scan"
    /\ idx[c] > Len(processors)
    /\ pc' = [pc EXCEPT ![c] = "done"]
    /\ IF processor[c] = NilRef
       THEN /\ w' = [w EXCEPT ![c] = HttpError(w[c], "Not Found", 404)]
            /\ UNCHANGED <<invoked, upstream>>
       ELSE \E h \in results :
            /\ invoked' = [invoked EXCEPT ![c] = Append(invoked[c], processor[c])]
            /\ upstream' = [upstream EXCEPT ![c] = h.up]
            /\ w' = [w EXCEPT ![c] = Emit(w[c], h.resp)]
    /\ UNCHANGED <<app, raw, req, processor, idx>>

Next ==
    \/ \E p \in Patterns : Route(p)
    \/ AddProcessor(CatchAll)
    \/ SetDefaultProcessor(CatchAll)
    \/ Run
    \/ \E r \in RawRequests : ServeBegin("c1", r)
    \/ ServeScan("c1")
    \/ ServeRespond("c1", HandlerResults)

Spec == Init /\ [][Next]_vars

\* the server calls ServeHTTP for several requests at once
NextConc ==
    \/ \E p \in ConcPatterns : Route(p)
    \/ AddProcessor(CatchAll)
    \/ SetDefaultProcessor(CatchAll)
    \/ Run
    \/ \E c \in Clients, r \in ConcRequests : ServeBegin(c, r)
    \/ \E c \in Clients : ServeScan(c)
    \/ \E c \in Clients : ServeRespond(c, ConcHandlerResults)

SpecConc == Init /\ [][NextConc]_vars

(***************************************************************************)
(* Vocabulary of the properties.                                           *)
(***************************************************************************)
Range(f) == {f[i] : i \in DOMAIN f}

\* the string the processors of call c are asked about
Asked(c) == NormalizedPath(req[c])

\* Match of processor i returns true / returns false on s
Accepts(i, s) == LET m == MatchFunc(processors[i], s) IN ~m.panic /\ m.ok
Rejects(i, s) == LET m == MatchFunc(processors[i], s) IN ~m.panic /\ ~m.ok

\* no registered processor matches s
NoneMatches(s) == \A i \in 1..Len(processors) : Rejects(i, s)

IsRoute(i) == processors[i].Match.kind = "route"

Slashes(n) == [i \in 1..n |-> "/"]

\* the number of capture groups of a pattern
NumGroups(pattern) == Cardinality({i \in 1..Len(pattern) : pattern[i] = "("})

RECURSIVE Rebuild(_, _, _, _, _)
\* the pattern from position i on, with each group (the groups of the
\* model's patterns are not nested) replaced by the argument of its rank
Rebuild(pattern, i, g, inGroup, args) ==
    IF i > Len(pattern) THEN <<>>
    ELSE CASE pattern[i] = "(" -> args[g] \o Rebuild(pattern, i + 1, g + 1, TRUE, args)
           [] pattern[i] = ")" -> Rebuild(pattern, i + 1, g, FALSE, args)
           [] inGroup -> Rebuild(pattern, i + 1, g, inGroup, args)
           [] OTHER -> <<pattern[i]>> \o Rebuild(pattern, i + 1, g, inGroup, args)

IsSuffix(t, s) == Len(t) <= Len(s) /\ SubSeq(s, Len(s) - Len(t) + 1, Len(s)) = t

\* the key/value pairs of a header map
Pairs(h) == UNION {{<<n, h[n][i]>> : i \in 1..Len(h[n])} : n \in DOMAIN h}

\* the path-only pattern P matches the whole of path, from start to end
WholePathMatch(P, path) ==
    LET c == Compile(<<"^">> \o TrimRight(P, "/") \o <<"$">>) IN
    ~c.err /\ MatchString(c.re[1], path)

(***************************************************************************)
(* C1: for every request at most one handler is invoked; when the request  *)
(* is served and processor j is the first whose Match accepts the          *)
(* normalized string (the Match of every earlier one having rejected it),  *)
(* the handler invoked is that of j; and when P1 is registered before P2   *)
(* and both accept, the handler of P2 is never invoked.                    *)
(***************************************************************************)
FirstMatchWins ==
    \A c \in Clients : pc[c] # "idle" =>
        /\ Len(invoked[c]) <= 1
        /\ \A j \in 1..Len(processors) :
              (/\ pc[c] = "done"
               /\ Accepts(j, Asked(c))
               /\ \A i \in 1..(j - 1) : Rejects(i, Asked(c)))
                  => invoked[c] = <<ListRef(j)>>
        /\ \A p2 \in 1..Len(processors) :
              ListRef(p2) \in Range(invoked[c]) =>
                  \A p1 \in 1..(p2 - 1) :
                      ~(Accepts(p1, Asked(c)) /\ Accepts(p2, Asked(c)))

\* a served request that two processors accept, handled by the first
FirstMatchWinsWitness ==
    \E c \in Clients :
        /\ pc[c] = "done"
        /\ Len(processors) >= 2
        /\ IsRoute(1) /\ IsRoute(2)
        /\ Accepts(1, Asked(c)) /\ Accepts(2, Asked(c))
        /\ invoked[c] = <<ListRef(1)>>

(***************************************************************************)
(* C2: when a default processor is set and no registered processor matches *)
(* the request, the handler of the default processor, and no other, is     *)
(* invoked, and the Request it receives has no captured argument.          *)
(***************************************************************************)
DefaultHandlesUnmatched ==
    \A c \in Clients :
        (pc[c] = "done" /\ defaultProcessor # <<>> /\ NoneMatches(Asked(c)))
            => /\ invoked[c] = <<DefaultRef>>
               /\ req[c].Arguments = <<>>

DefaultHandlesUnmatchedWitness ==
    \E c \in Clients :
        /\ pc[c] = "done"
        /\ defaultProcessor # <<>>
        /\ Len(processors) >= 1
        /\ NoneMatches(Asked(c))
        /\ invoked[c] = <<DefaultRef>>

(***************************************************************************)
(* C3, as stated: a request that matches no registered processor while no  *)
(* default processor is set is answered with status 404 and an empty body. *)
(***************************************************************************)
NotFoundEmptyBody ==
    \A c \in Clients :
        (pc[c] = "done" /\ defaultProcessor = <<>> /\ NoneMatches(Asked(c)))
            => /\ w[c].Status = 404
               /\ w[c].Body = <<>>

(***************************************************************************)
(* C3, amended: such a request is answered with status 404 and the body    *)
(* "Not Found" followed by a newline, and no handler is invoked.           *)
(***************************************************************************)
NotFoundWithMessage ==
    \A c \in Clients :
        (pc[c] = "done" /\ defaultProcessor = <<>> /\ NoneMatches(Asked(c)))
            => /\ w[c].Status = 404
               /\ w[c].Body = <<"Not Found", "\n">>
               /\ invoked[c] = <<>>

NotFoundWitness ==
    \E c \in Clients :
        /\ pc[c] = "done"
        /\ defaultProcessor = <<>>
        /\ Len(processors) >= 1
        /\ NoneMatches(Asked(c))
        /\ w[c].Status = 404

(***************************************************************************)
(* C4: a pattern that does not compile is refused by Route: no processor   *)
(* for it is in the processor list, and no request fails because of it.    *)
(***************************************************************************)
BrokenPatternRefused ==
    /\ \A i \in 1..Len(processors) : IsRoute(i) => processors[i].Match.re # <<>>
    /\ \A c \in Clients : pc[c] # "panic"

(***************************************************************************)
(* C5: a request whose translation fails (its body cannot be read) is      *)
(* answered with status 400 and reaches no handler.                        *)
(***************************************************************************)
UnreadableBodyIsBadRequest ==
    \A c \in Clients :
        (pc[c] = "done" /\ raw[c].ReadErr)
            => /\ w[c].Status = 400
               /\ invoked[c] = <<>>

(***************************************************************************)
(* C6: trailing separators are insignificant.  For every route list,       *)
(* method and path, the dispatch of the path with one or more '/' appended *)
(* selects the same processor with the same arguments as the dispatch of   *)
(* the path (and so does every call of ServeHTTP that ended); and the      *)
(* matcher of a route registered with pattern q is the matcher Route       *)
(* builds for q followed by '/'.                                           *)
(***************************************************************************)
TrailingSeparatorsInsignificant ==
    /\ ~running =>
          \A m \in Methods, p \in Paths :
              LET alone == Select(processors, defaultProcessor, m, p) IN
              \A n \in 1..MaxTrail :
                  Select(processors, defaultProcessor, m, p \o Slashes(n)) = alone
    /\ \A c \in Clients, n \in 1..MaxTrail :
          pc[c] \in {"done", "panic"} =>
              LET r == Select(processors, defaultProcessor, raw[c].Method,
                              raw[c].Path \o Slashes(n))
              IN  /\ r.panic = (pc[c] = "panic")
                  /\ pc[c] = "done" => (r.ref = processor[c] /\ r.args = req[c].Arguments)
    /\ \A i \in 1..Len(processors) :
          IsRoute(i) =>
              processors[i].Match = RouteProcessor(processors[i].pattern \o <<"/">>).Match

\* a request with a trailing separator, handled by a route with its captures
TrailingSeparatorsWitness ==
    \E c \in Clients :
        /\ pc[c] = "done"
        /\ raw[c].Path = PathASlash
        /\ invoked[c] = <<ListRef(1)>>
        /\ processors[1].pattern = PatOne
        /\ req[c].Arguments = << <<"a">> >>

(***************************************************************************)
(* C7: a request handled by a route whose pattern has k capture groups     *)
(* reaches the handler with exactly k arguments, the i-th being the text   *)
(* of the i-th group from the left (the method wildcard adds none): the    *)
(* arguments are the submatches of the groups, and the pattern with each   *)
(* group replaced by its argument is the end of the string matched.        *)
(***************************************************************************)
CapturedArguments ==
    \A c \in Clients : \A j \in 1..Len(processors) :
        (invoked[c] = <<ListRef(j)>> /\ IsRoute(j)) =>
            LET pattern == processors[j].pattern
                k == NumGroups(pattern)
                sub == FindStringSubmatch(processors[j].Match.re[1], Asked(c))
                args == req[c].Arguments
            IN  /\ Len(args) = k
                /\ \A i \in 1..k : args[i] = sub[i + 1]
                /\ IsSuffix(Rebuild(TrimRight(pattern, "/"), 1, 1, FALSE, args), Asked(c))

\* the two groups of /(a+)/(.*) on /aa/b
CapturedArgumentsWitness ==
    \E c \in Clients : \E j \in 1..Len(processors) :
        /\ invoked[c] = <<ListRef(j)>>
        /\ processors[j].pattern = PatTwo
        /\ raw[c].Path = PathAAB
        /\ req[c].Arguments = << <<"a", "a">>, <<"b">> >>

(***************************************************************************)
(* C8, as stated: a raw response translated by ParseResponse and emitted   *)
(* by ServeHTTP is written with its status and exactly its header          *)
(* key/value pairs.                                                        *)
(***************************************************************************)
RoundTripExact ==
    \A c \in Clients :
        (pc[c] = "done" /\ upstream[c] # <<>>)
            => /\ w[c].Status = upstream[c][1].StatusCode
               /\ Pairs(w[c].Header) = Pairs(upstream[c][1].Header)

(***************************************************************************)
(* C8, amended: it is written with its status and, for each header name,   *)
(* exactly one pair: the name with the first of its values.                *)
(***************************************************************************)
RoundTripFirstValues ==
    \A c \in Clients :
        (pc[c] = "done" /\ upstream[c] # <<>>)
            => /\ w[c].Status = upstream[c][1].StatusCode
               /\ Pairs(w[c].Header)
                    = {<<n, upstream[c][1].Header[n][1]>> : n \in DOMAIN upstream[c][1].Header}

\* a raw response with a repeated header went through
RoundTripWitness ==
    \E c \in Clients :
        /\ pc[c] = "done"
        /\ upstream[c] # <<>>
        /\ \E n \in DOMAIN upstream[c][1].Header : Len(upstream[c][1].Header[n]) > 1
        /\ w[c].Status = 200

(***************************************************************************)
(* C9: a route registered with a path-only pattern P handles a request     *)
(* only if P matches the whole path of the request, trailing separators    *)
(* trimmed, from start to end.                                             *)
(***************************************************************************)
PathOnlyRouteMatchesWholePath ==
    \A c \in Clients : \A j \in 1..Len(processors) :
        (/\ invoked[c] = <<ListRef(j)>>
         /\ IsRoute(j)
         /\ HasNoByte(processors[j].pattern, " "))
            => WholePathMatch(processors[j].pattern, TrimRight(raw[c].Path, "/"))

(***************************************************************************)
(* C10: while the server serves, no step changes the processor list or the *)
(* default processor, and under every interleaving of calls each call ends *)
(* with the processor and the arguments that the same request, dispatched  *)
(* alone against the route list, selects.                                  *)
(***************************************************************************)
AsIfAlone ==
    \A c \in Clients :
        pc[c] \in {"done", "panic"} =>
            LET r == Select(processors, defaultProcessor, raw[c].Method, raw[c].Path) IN
            /\ r.panic = (pc[c] = "panic")
            /\ pc[c] = "done" =>
                  /\ r.ref = processor[c]
                  /\ r.args = req[c].Arguments
                  /\ invoked[c] = IF r.ref = NilRef THEN <<>> ELSE <<r.ref>>

ServingIsolated ==
    /\ []AsIfAlone
    /\ [][running => (processors' = processors /\ defaultProcessor' = defaultProcessor)]_vars

\* two calls that ended with different arguments from the same route
ServingIsolatedWitness ==
    /\ \A c \in Clients : pc[c] = "done" /\ invoked[c] = <<ListRef(1)>>
    /\ req["c1"].Arguments = << <<"a">> >>
    /\ req["c2"].Arguments = << <<"a", "a">> >>

=============================================================================
